---- MODULE Spec2Model ----
(***************************************************************************)
(* Battery storage dispatch (opt_func.py): optimize_storage_dispatch       *)
(* builds a linear program over the steps of a price series and hands it   *)
(* to HiGHS, extract_storage_profits reads the solved variables into a     *)
(* table, optimization_func chains the two.                                *)
(*                                                                         *)
(* Numbers.  The program works on floats.  Here every power and energy     *)
(* value of the LP is an exact integer count of 1/Scale MW (MWh), and an   *)
(* efficiency is an integer count of hundredths (0.95 is 95), so that the  *)
(* state-of-charge rule is computed without rounding.  The solver is a     *)
(* black box that returns some point of the LP; its real-valued choice is  *)
(* sampled on the lattice of dispatches that move stored energy in whole   *)
(* quanta (half of what one step of charging at p_max stores).  On that    *)
(* lattice a charge of k quanta and a discharge of k quanta cancel         *)
(* exactly, as they do over the reals.                                     *)
(***************************************************************************)
EXTENDS Integers, Sequences, FiniteSets, TLC

VARIABLES
    call,            \* the last call: entry point and its arguments
    storage_params,  \* <<dict>> the LP was built from, <<>> when none was built
    n_steps,         \* n_steps of the LP built in the last call
    model,           \* <<model>> returned by optimize_storage_dispatch, else <<>>
    solver_calls,    \* solver.solve invocations made by the last call
    termination,     \* how the solver ended in the last call
    raised,          \* exception the last call ended with, "none" otherwise
    results_df,      \* <<rows>> of the last extraction, <<>> when none
    total_profit     \* <<[num, den]>> total_profit of optimization_func

vars == <<call, storage_params, n_steps, model, solver_calls, termination, raised,
          results_df, total_profit>>

-----------------------------------------------------------------------------
(* Bounds of the model *)

MaxN == 2            \* longest price series

-----------------------------------------------------------------------------
(* Number representation *)

Scale == 16          \* LP values are counted in 1/Scale MW, MWh
Pct == 100           \* efficiencies are counted in hundredths

-----------------------------------------------------------------------------
(* Inputs *)

Prices == {-10, 0, 10, 20}

RECURSIVE SeqsUpTo(_, _)
SeqsUpTo(S, n) ==
    IF n = 0 THEN {<<>>}
    ELSE LET shorter == SeqsUpTo(S, n - 1)
         IN  shorter \cup {Append(s, x) : s \in {q \in shorter : Len(q) = n - 1}, x \in S}

PriceSeriesSet == SeqsUpTo(Prices, MaxN)

\* A DataFrame is its sequence of columns.
PriceFrames ==
    {<<[name |-> "price", values |-> s]>> : s \in PriceSeriesSet}
    \cup {<<[name |-> "load", values |-> s], [name |-> "price", values |-> s]>> :
              s \in {q \in PriceSeriesSet : Len(q) <= 1}}
    \cup {<<[name |-> "load", values |-> s]>> : s \in {q \in PriceSeriesSet : Len(q) <= 1}}

StorageParams(cap, pm, ec, ed, soc) ==
    [capacity |-> cap, p_max |-> pm, eff_ch |-> ec, eff_dis |-> ed, soc_init |-> soc]

DefaultParams == StorageParams(100, 50, 95, 95, 0)

ParamsSet ==
    { DefaultParams,
      StorageParams(100, 50, 100, 100, 0),
      StorageParams(100, 50, 50, 100, 0),
      StorageParams(25, 50, 50, 100, 0),
      StorageParams(100, 50, 100, 100, 50),
      StorageParams(100, 50, 100, 50, 25),
      StorageParams(50, 50, 50, 100, 25),
      StorageParams(100, 50, 100, 100, 150) }

\* storage_params as passed by a caller: <<>> is None.
ParamsArgs == {<<>>} \cup {<<p>> : p \in ParamsSet}

\* price_df / price_series as passed to optimize_storage_dispatch.
Series(s) == [kind |-> "Series", values |-> s]
DataFrame(cols) == [kind |-> "DataFrame", columns |-> cols]

-----------------------------------------------------------------------------
(* The linear program of optimize_storage_dispatch *)

\* Faulty variant: the charge power bounded by the capacity instead of p_max.
P_ch_bounds_Capacity(sp) == <<0, Scale * sp.capacity>>

\* bounds=(0, p_max) of model.P_ch, in 1/Scale MW
P_ch_bounds(sp) == <<0, Scale * sp.p_max>>

\* bounds=(0, p_max) of model.P_dis
P_dis_bounds(sp) == <<0, Scale * sp.p_max>>

\* Faulty variant: a stored energy that may go as far below zero as above it.
E_bounds_Signed(sp) == <<0 - Scale * sp.capacity, Scale * sp.capacity>>

\* bounds=(0, capacity) of model.E
E_bounds(sp) == <<0, Scale * sp.capacity>>

Within(b, v) == b[1] <= v /\ v <= b[2]

\* Faulty variant: every step starts from soc_init, the previous step's energy is
\* not carried over.
soc_rule_NoCarry(sp, t, E_prev, p_ch, p_dis) ==
    Scale * sp.soc_init + (p_ch * sp.eff_ch) \div Pct - (p_dis * Pct) \div sp.eff_dis

\* Right-hand side of soc_rule at step t: the value the constraint gives E[t].
\* E_prev is E[t-1]; it is not read at t = 0.
soc_rule(sp, t, E_prev, p_ch, p_dis) ==
    IF t = 0
    THEN Scale * sp.soc_init + (p_ch * sp.eff_ch) \div Pct - (p_dis * Pct) \div sp.eff_dis
    ELSE E_prev + (p_ch * sp.eff_ch) \div Pct - (p_dis * Pct) \div sp.eff_dis

\* Faulty variant: the cost of charging counted as revenue.
ObjTerm_Added(price, p_ch, p_dis) == price * p_dis + price * p_ch

\* One term of the objective.
ObjTerm(price, p_ch, p_dis) == price * p_dis - price * p_ch

\* model.obj evaluated at a point; price_series.iat[t] is prices[t + 1].
RECURSIVE Objective(_, _, _)
Objective(prices, point, n) ==
    IF n = 0 THEN 0
    ELSE Objective(prices, point, n - 1) + ObjTerm(prices[n], point[n].P_ch, point[n].P_dis)

\* Sampling of the reals the solver works over.  A charge step is half of
\* p_max; Quantum is the energy it stores; a discharge step draws one
\* Quantum.  Samples reach one step below 0 and beyond p_max, so that it is
\* the variable bounds that keep a point inside them.
ChStep(sp) == (Scale * sp.p_max) \div 2
Quantum(sp) == (ChStep(sp) * sp.eff_ch) \div Pct
DisStep(sp) == (Quantum(sp) * sp.eff_dis) \div Pct
ChSamples(sp) == {k * ChStep(sp) : k \in -1 .. 3}
DisSamples(sp) == {k * DisStep(sp) : k \in -1 .. ((Scale * sp.p_max) \div DisStep(sp)) + 1}

\* The points of the LP with n steps that satisfy the variable bounds and the
\* soc constraints: sequences of rows, row t + 1 holding step t.
RECURSIVE FeasiblePoints(_, _)
FeasiblePoints(sp, n) ==
    IF n = 0 THEN {<<>>}
    ELSE LET extended ==
                 {Append(pre, [P_ch |-> c, P_dis |-> d,
                               E |-> soc_rule(sp, n - 1,
                                              IF n = 1 THEN 0 ELSE pre[n - 1].E, c, d)]) :
                      pre \in FeasiblePoints(sp, n - 1),
                      c \in {x \in ChSamples(sp) : Within(P_ch_bounds(sp), x)},
                      d \in {x \in DisSamples(sp) : Within(P_dis_bounds(sp), x)}}
         IN  {pt \in extended : Within(E_bounds(sp), pt[n].E)}

Max(S) == CHOOSE m \in S : \A x \in S : x <= m

\* What solver.solve(model) can do with the LP (appsi_highs, load_solutions
\* left at its default).  The code keeps nothing of the call's result, so the
\* only traces of it are the values loaded into the model and an exception.
\*   - an optimal point is loaded;
\*   - the solver stops short of optimality holding a feasible point, which
\*     is loaded all the same;
\*   - there is no feasible point: nothing is loaded, the call raises.
Solve(sp, prices) ==
    LET n == Len(prices)
        feasible == FeasiblePoints(sp, n)
        values == {Objective(prices, pt, n) : pt \in feasible}
    IN  IF feasible = {}
        THEN {[termination |-> "infeasible", raised |-> "RuntimeError", point |-> <<>>]}
        ELSE {[termination |-> IF Objective(prices, pt, n) = Max(values)
                               THEN "optimal" ELSE "feasibleNonOptimal",
               raised |-> "none", point |-> pt] : pt \in feasible}

\* The model object after the solve: index set, loaded values, the price
\* coefficients of the objective expression and its value.
ConcreteModel(prices, point) ==
    LET n == Len(prices)
    IN  [T |-> 0 .. n - 1,
         P_ch |-> [t \in 0 .. n - 1 |-> point[t + 1].P_ch],
         P_dis |-> [t \in 0 .. n - 1 |-> point[t + 1].P_dis],
         E |-> [t \in 0 .. n - 1 |-> point[t + 1].E],
         obj_coef |-> prices,
         obj |-> Objective(prices, point, n)]

\* storage_params of optimize_storage_dispatch after its default is applied.
EffectiveParams(params_arg) == IF params_arg = <<>> THEN DefaultParams ELSE params_arg[1]

\* price_series of optimize_storage_dispatch: the first column of a DataFrame.
PriceSeriesOf(price_arg) ==
    IF price_arg.kind = "DataFrame" THEN price_arg.columns[1].values ELSE price_arg.values

\* optimize_storage_dispatch(price_df, storage_params): every way the call can end.
optimize_storage_dispatch(price_arg, params_arg) ==
    LET sp == EffectiveParams(params_arg)
        prices == PriceSeriesOf(price_arg)
    IN  {[storage_params |-> <<sp>>,
          n_steps |-> Len(prices),
          solver_calls |-> 1,
          termination |-> o.termination,
          raised |-> o.raised,
          model |-> IF o.raised = "none" THEN <<ConcreteModel(prices, o.point)>> ELSE <<>>] :
             o \in Solve(sp, prices)}

\* extract_storage_profits(model, price_series): the table, or the exception
\* of reading a variable the model has no index for.
extract_storage_profits(m, prices) ==
    LET n == Len(prices)
    IN  IF \E t \in 0 .. n - 1 : t \notin m.T
        THEN [raised |-> "KeyError", results_df |-> <<>>]
        ELSE [raised |-> "none",
              results_df |->
                  <<[i \in 1 .. n |->
                       [index |-> i - 1,
                        P_ch |-> m.P_ch[i - 1],
                        P_dis |-> m.P_dis[i - 1],
                        E |-> m.E[i - 1],
                        price |-> prices[i],
                        profit |-> prices[i] * m.P_dis[i - 1] - prices[i] * m.P_ch[i - 1]]]>>]

RECURSIVE SumProfit(_, _)
SumProfit(rows, n) == IF n = 0 THEN 0 ELSE SumProfit(rows, n - 1) + rows[n].profit

HasColumn(df, name) == \E i \in 1 .. Len(df) : df[i].name = name
Column(df, name) == df[CHOOSE i \in 1 .. Len(df) : df[i].name = name].values

\* The parameters optimization_func builds the LP from.
ProjectParams(params_arg) == StorageParams(100, 50, 95, 95, 0)

-----------------------------------------------------------------------------
(* State machine: one call chain per behaviour *)

NoCall == [fn |-> "none", price |-> Series(<<>>), params |-> <<>>]

Init ==
    /\ call = NoCall
    /\ storage_params = <<>>
    /\ n_steps = 0
    /\ model = <<>>
    /\ solver_calls = 0
    /\ termination = "none"
    /\ raised = "none"
    /\ results_df = <<>>
    /\ total_profit = <<>>

PriceArgs ==
    {Series(s) : s \in PriceSeriesSet} \cup {DataFrame(df) : df \in PriceFrames}

\* A caller calls optimize_storage_dispatch directly.
OptimizeStorageDispatch ==
    /\ call.fn = "none"
    /\ \E price_arg \in PriceArgs, params_arg \in ParamsArgs :
         \E r \in optimize_storage_dispatch(price_arg, params_arg) :
            /\ call' = [fn |-> "optimize_storage_dispatch", price |-> price_arg,
                        params |-> params_arg]
            /\ storage_params' = r.storage_params
            /\ n_steps' = r.n_steps
            /\ model' = r.model
            /\ solver_calls' = r.solver_calls
            /\ termination' = r.termination
            /\ raised' = r.raised
    /\ UNCHANGED <<results_df, total_profit>>

\* The price series a caller may hand to extract_storage_profits along with
\* the model: the one the model was built from, a shorter and a longer one.
ExtractArgs(prices) ==
    {prices, Append(prices, 0)}
    \cup (IF prices = <<>> THEN {} ELSE {SubSeq(prices, 1, Len(prices) - 1)})

\* The caller hands the returned model to extract_storage_profits.
ExtractStorageProfits ==
    /\ call.fn = "optimize_storage_dispatch"
    /\ model # <<>>
    /\ \E prices \in ExtractArgs(PriceSeriesOf(call.price)) :
         LET r == extract_storage_profits(model[1], prices)
         IN  /\ call' = [fn |-> "extract_storage_profits", price |-> Series(prices),
                         params |-> call.params]
             /\ raised' = r.raised
             /\ results_df' = r.results_df
    /\ UNCHANGED <<storage_params, n_steps, model, solver_calls, termination,
                   total_profit>>

\* optimization_func(price_df, storage_params), the whole call.
OptimizationFunc ==
    /\ call.fn = "none"
    /\ \E df \in PriceFrames, params_arg \in ParamsArgs :
         /\ call' = [fn |-> "optimization_func", price |-> DataFrame(df),
                     params |-> params_arg]
         /\ IF ~HasColumn(df, "price")
            THEN /\ raised' = "ValueError"
                 /\ UNCHANGED <<storage_params, n_steps, model, solver_calls, termination,
                                results_df, total_profit>>
            ELSE LET sp == ProjectParams(params_arg)
                     prices == Column(df, "price")
                 IN  \E r \in optimize_storage_dispatch(Series(prices), <<sp>>) :
                        /\ storage_params' = r.storage_params
                        /\ n_steps' = r.n_steps
                        /\ model' = r.model
                        /\ solver_calls' = r.solver_calls
                        /\ termination' = r.termination
                        /\ IF r.raised # "none"
                           THEN /\ raised' = r.raised
                                /\ UNCHANGED <<results_df, total_profit>>
                           ELSE LET x == extract_storage_profits(r.model[1], prices)
                                IN  /\ raised' = x.raised
                                    /\ results_df' = x.results_df
                                    /\ total_profit' =
                                         <<[num |-> SumProfit(x.results_df[1], Len(prices)),
                                            den |-> 1000 * Scale]>>

Next == OptimizeStorageDispatch \/ ExtractStorageProfits \/ OptimizationFunc

Spec == Init /\ [][Next]_vars

-----------------------------------------------------------------------------
(* Properties *)

\* StorageParams within the ranges the data model gives them.
Valid(sp) ==
    /\ sp.capacity > 0
    /\ sp.p_max > 0
    /\ 0 < sp.eff_ch /\ sp.eff_ch <= Pct
    /\ 0 < sp.eff_dis /\ sp.eff_dis <= Pct
    /\ 0 <= sp.soc_init /\ sp.soc_init <= sp.capacity

\* optimize_storage_dispatch has returned a model holding the solver's point.
Returned == model # <<>>
ReturnedOptimal == model # <<>> /\ termination = "optimal"

SP == storage_params[1]
M == model[1]
LpPrices == model[1].obj_coef

AllEqual(prices) == \A i, j \in 1 .. Len(prices) : prices[i] = prices[j]

\* sum over t of price[t] * (P_dis[t] - P_ch[t]), written out from the values.
RECURSIVE Profit(_, _, _)
Profit(prices, m, n) ==
    IF n = 0 THEN 0
    ELSE Profit(prices, m, n - 1) + prices[n] * (m.P_dis[n - 1] - m.P_ch[n - 1])

\* C1: for valid StorageParams and N >= 1, every returned solution keeps
\* E[t] within [0, capacity] and P_ch[t], P_dis[t] within [0, p_max] at
\* every step t.
C1_BoundInvariant ==
    (Returned /\ Valid(SP) /\ n_steps >= 1) =>
        \A t \in 0 .. n_steps - 1 :
            /\ 0 <= M.E[t] /\ M.E[t] <= Scale * SP.capacity
            /\ 0 <= M.P_ch[t] /\ M.P_ch[t] <= Scale * SP.p_max
            /\ 0 <= M.P_dis[t] /\ M.P_dis[t] <= Scale * SP.p_max

\* A returned solution of two steps that charges at full power and fills the
\* storage to capacity.
C1_Witness ==
    /\ ReturnedOptimal /\ Valid(SP) /\ n_steps = 2
    /\ M.P_ch[0] = Scale * SP.p_max
    /\ M.E[1] = Scale * SP.capacity

\* C2: in every returned optimal solution the state of charge chain holds at
\* every step: E[0] = soc_init + P_ch[0]*eff_ch - P_dis[0]/eff_dis and, for
\* t >= 1, E[t] = E[t-1] + P_ch[t]*eff_ch - P_dis[t]/eff_dis (both sides
\* multiplied by eff_dis, in hundredths).
C2_SocChain ==
    ReturnedOptimal =>
        \A t \in 0 .. n_steps - 1 :
            M.E[t] * Pct * SP.eff_dis
              = (IF t = 0 THEN Scale * SP.soc_init ELSE M.E[t - 1]) * Pct * SP.eff_dis
                + M.P_ch[t] * SP.eff_ch * SP.eff_dis
                - M.P_dis[t] * Pct * Pct

\* An optimal solution that stores energy at step 0 and draws it at step 1.
C2_Witness ==
    /\ ReturnedOptimal /\ n_steps = 2
    /\ M.E[0] > Scale * SP.soc_init
    /\ M.P_dis[1] > 0
    /\ M.E[1] < M.E[0]

\* C3: a call of optimize_storage_dispatch with soc_init > capacity ends in
\* an exception and never invokes the solver.
C3_RejectsSocAboveCapacity ==
    (storage_params # <<>> /\ SP.soc_init > SP.capacity) =>
        (raised # "none" /\ solver_calls = 0)

\* C4: when the solver ends with a status other than optimal, the call
\* surfaces a failure: no model is returned and no schedule is extracted.
C4_FailureSurfaced ==
    termination \notin {"none", "optimal"} =>
        (model = <<>> /\ raised # "none" /\ results_df = <<>>)

\* C5 as stated: for valid StorageParams and a constant price sequence of
\* length N >= 1, the optimal objective value is 0.
C5_ConstantPriceZero ==
    (ReturnedOptimal /\ Valid(SP) /\ n_steps >= 1 /\ AllEqual(LpPrices)) =>
        M.obj = 0

\* C5 amended: for valid StorageParams and a constant price sequence of
\* length N >= 1, the optimal objective value is 0 when the common price is
\* 0, or when it is positive and soc_init = 0.
C5_ConstantPriceZeroAmended ==
    (/\ ReturnedOptimal /\ Valid(SP) /\ n_steps >= 1 /\ AllEqual(LpPrices)
     /\ \/ LpPrices[1] = 0
        \/ LpPrices[1] > 0 /\ SP.soc_init = 0) =>
        M.obj = 0

\* An optimal solution for two steps at the same positive price, from an
\* empty storage.
C5_Witness ==
    /\ ReturnedOptimal /\ Valid(SP) /\ n_steps = 2
    /\ LpPrices = <<10, 10>> /\ SP.soc_init = 0
    /\ SP.eff_ch < Pct

\* C6: the LP is built from the parameters the caller supplies, and from the
\* defaults (100, 50, 0.95, 0.95, 0) only when the caller supplies none.
C6_CallerParamsUsed ==
    storage_params # <<>> =>
        /\ call.params # <<>> => storage_params = call.params
        /\ call.params = <<>> => storage_params = <<StorageParams(100, 50, 95, 95, 0)>>

\* C7 as stated: for N = 1, soc_init = 0 and valid StorageParams, the
\* dispatch is P_ch[0] = P_dis[0] = 0 and the optimal objective is 0, for
\* every price.
C7_SingleStepOnlyZero ==
    (ReturnedOptimal /\ Valid(SP) /\ n_steps = 1 /\ SP.soc_init = 0) =>
        (M.P_ch[0] = 0 /\ M.P_dis[0] = 0 /\ M.obj = 0)

\* C7 amended: for N = 1, soc_init = 0 and valid StorageParams, every
\* feasible dispatch has P_dis[0] <= eff_ch*eff_dis*P_ch[0] (charging is
\* feasible, a net discharge is not), and the optimal objective is 0 for
\* every price >= 0.
C7_SingleStepAmended ==
    (Returned /\ Valid(SP) /\ n_steps = 1 /\ SP.soc_init = 0) =>
        /\ M.P_dis[0] * Pct * Pct <= M.P_ch[0] * SP.eff_ch * SP.eff_dis
        /\ (termination = "optimal" /\ LpPrices[1] >= 0) => M.obj = 0

\* A single positive-price step from an empty storage, solved to optimality.
C7_Witness ==
    /\ ReturnedOptimal /\ Valid(SP) /\ n_steps = 1 /\ SP.soc_init = 0
    /\ LpPrices[1] > 0
    /\ M.P_ch[0] = 0 /\ M.P_dis[0] = 0

\* C8 as stated: for valid StorageParams with eff_ch*eff_dis < 1 and every
\* price sequence, no optimal solution charges and discharges in one step.
C8_NoSimultaneous ==
    (ReturnedOptimal /\ Valid(SP) /\ SP.eff_ch * SP.eff_dis < Pct * Pct) =>
        \A t \in 0 .. n_steps - 1 : ~(M.P_ch[t] > 0 /\ M.P_dis[t] > 0)

\* C8 amended: for valid StorageParams with eff_ch*eff_dis < 1 and every
\* sequence of strictly positive prices, no optimal solution charges and
\* discharges in one step.
C8_NoSimultaneousAmended ==
    (/\ ReturnedOptimal /\ Valid(SP) /\ SP.eff_ch * SP.eff_dis < Pct * Pct
     /\ \A i \in 1 .. n_steps : LpPrices[i] > 0) =>
        \A t \in 0 .. n_steps - 1 : ~(M.P_ch[t] > 0 /\ M.P_dis[t] > 0)

\* A lossy storage that buys at step 0 and sells at step 1, both prices
\* positive.
C8_Witness ==
    /\ ReturnedOptimal /\ Valid(SP) /\ SP.eff_ch * SP.eff_dis < Pct * Pct
    /\ n_steps = 2 /\ LpPrices[1] > 0 /\ LpPrices[2] > 0
    /\ M.P_ch[0] > 0 /\ M.P_dis[1] > 0

ScenarioA == StorageParams(100, 50, 100, 100, 0)

\* C9: for prices [10, 20], capacity 100, p_max 50, efficiencies 1.0 and
\* soc_init 0 the optimal total profit is p_max*(20-10) = 500, reached by
\* charging p_max at step 0 and discharging p_max at step 1.
C9_ScenarioA ==
    (ReturnedOptimal /\ SP = ScenarioA /\ LpPrices = <<10, 20>>) =>
        /\ Profit(LpPrices, M, 2) = 500 * Scale
        /\ M.P_ch[0] = 50 * Scale /\ M.P_dis[0] = 0
        /\ M.P_ch[1] = 0 /\ M.P_dis[1] = 50 * Scale
        /\ (results_df # <<>> /\ call.price = Series(<<10, 20>>)) =>
               results_df[1][1].profit + results_df[1][2].profit = 500 * Scale

\* Scenario A solved to optimality and its schedule extracted.
C9_Witness ==
    /\ ReturnedOptimal /\ SP = ScenarioA /\ LpPrices = <<10, 20>>
    /\ call.fn = "extract_storage_profits" /\ call.price = Series(<<10, 20>>)
    /\ results_df # <<>>

\* C10: an empty price sequence is rejected before any LP is handed to the
\* solver: the solver is only ever invoked on a model with N >= 1 steps.
C10_SolverNeedsSteps ==
    solver_calls > 0 => n_steps >= 1

====
